---- MODULE Spec2Model ----
(***************************************************************************)
(* Model of devmem-rs (src/lib.rs): a Mapping of a physical address range  *)
(* of /dev/mem into the virtual address space, its two transfers, its      *)
(* Drop, and the two one-shot helpers.                                     *)
(*                                                                         *)
(* The machine is scaled down: a word (usize) has WordMod values, a page   *)
(* has PageSize bytes and the device holds PhysSize bytes.  The operating  *)
(* system is modelled by what its calls promise: open may fail, mmap       *)
(* returns MAP_FAILED or a page-aligned base, munmap removes a region.     *)
(***************************************************************************)
EXTENDS Integers, Sequences, FiniteSets, TLC

\* ---------------------------------------------------------------- machine
WordMod == 16
PageSize == 4
MAP_FAILED == WordMod - 1
PhysSize == 2 * PageSize
Byte == {0, 1}
Builds == {"debug", "release"}

\* ----------------------------------------------------------------- bounds
MaxAddr == 3
MaxLen == 2
MaxBuf == 2
MaxOps == 2

PAddrs == 0..MaxAddr
Lens == (0..MaxLen) \cup {WordMod - 1}
BufLens == 0..MaxBuf
\* Buffer contents: the byte sequences of period 2 over Byte.
Pattern(n, a, b) == [i \in 1..n |-> IF i % 2 = 1 THEN a ELSE b]
BuffersOf(n) == {Pattern(n, a, b) : a \in Byte, b \in Byte}
Buffers == UNION {BuffersOf(n) : n \in BufLens}
VBases == {PageSize, 2 * PageSize}

VARIABLES build, phys, vm, obj, last, nops, pc

vars == <<build, phys, vm, obj, last, nops, pc>>

\* ------------------------------------------------------------ the Mapping
\* pa is a ghost field: the physical address the mapping was requested for.
NoObj ==
    [alive |-> FALSE, map_base |-> 0, len |-> 0, slice_base |-> 0,
     slice_max_len |-> 0, pa |-> 0]

Zeros(n) == [i \in 1..n |-> 0]

\* ------------------------------------------------------- operating system
\* A region is [base, len, off]: len bytes requested at file offset off were
\* mapped at base.  The kernel maps whole pages, so the addresses of a region
\* are base .. base + PageUp(len) - 1.  The last page of the address space,
\* which holds MAP_FAILED, is never handed out.
PageUp(n) == ((n + PageSize - 1) \div PageSize) * PageSize

Disjoint(r, base, len) ==
    base + PageUp(len) <= r.base \/ r.base + PageUp(r.len) <= base

MmapCanSucceed(vmap, base, reqlen, off) ==
    /\ reqlen > 0
    /\ off >= 0
    /\ off % PageSize = 0
    /\ off + PageUp(reqlen) <= PhysSize
    /\ base + PageUp(reqlen) <= WordMod - PageSize
    /\ \A r \in vmap : Disjoint(r, base, reqlen)

MmapRets(vmap, reqlen, off) ==
    {MAP_FAILED} \cup {b \in VBases : MmapCanSucceed(vmap, b, reqlen, off)}

munmap(vmap, base, len) ==
    IF base % PageSize # 0 \/ len = 0
    THEN [vm |-> vmap, ret |-> -1, hit |-> FALSE]
    ELSE [vm |-> {r \in vmap : Disjoint(r, base, len)},
          ret |-> 0,
          hit |-> \E r \in vmap : r.base = base /\ r.len = len]

\* ----------------------------------------------------------- Mapping::new
frame_offset(physical_addr) == physical_addr % PageSize

frame_addr(physical_addr) == physical_addr - frame_offset(physical_addr)

as_off_t(x) == IF x >= WordMod \div 2 THEN x - WordMod ELSE x

Overflows(len, physical_addr) == len + frame_offset(physical_addr) >= WordMod

MapLen(len, physical_addr) == (len + frame_offset(physical_addr)) % WordMod

\* Variant of AssertLen: the length is not checked.
AssertLenMut(len) == TRUE

AssertLen(len) == len > 0

\* Variant of OpenFailed: the error of open is not propagated.
OpenFailedMut(openOk) == FALSE

OpenFailed(openOk) == ~openOk

new(vmap, bld, physical_addr, len, openOk, ret) ==
    IF ~AssertLen(len)
    THEN [res |-> "panic", obj |-> NoObj, vm |-> vmap, opens |-> 0,
          fds |-> 0, mmaps |-> <<>>]
    ELSE IF OpenFailed(openOk)
    THEN [res |-> "err", obj |-> NoObj, vm |-> vmap, opens |-> 1,
          fds |-> 0, mmaps |-> <<>>]
    ELSE IF Overflows(len, physical_addr) /\ bld = "debug"
    THEN [res |-> "panic", obj |-> NoObj, vm |-> vmap, opens |-> 1,
          fds |-> (IF openOk THEN 1 ELSE 0), mmaps |-> <<>>]
    ELSE [res |-> "ok",
          obj |-> [alive |-> TRUE,
                   map_base |-> ret,
                   len |-> MapLen(len, physical_addr),
                   slice_base |-> (ret + frame_offset(physical_addr)) % WordMod,
                   slice_max_len |-> len,
                   pa |-> physical_addr],
          vm |-> IF ret = MAP_FAILED THEN vmap
                 ELSE vmap \cup {[base |-> ret,
                                  len |-> MapLen(len, physical_addr),
                                  off |-> as_off_t(frame_addr(physical_addr))]},
          opens |-> 1,
          fds |-> (IF openOk THEN 1 ELSE 0),
          mmaps |-> <<[len |-> MapLen(len, physical_addr),
                       off |-> as_off_t(frame_addr(physical_addr)),
                       ret |-> ret]>>]

\* ------------------------------------------------- as_slice / as_mut_slice
SliceAddr(o, i) == (o.slice_base + i) % WordMod

InRegion(r, a) == r.base <= a /\ a < r.base + PageUp(r.len)

Mapped(vmap, a) == \E r \in vmap : InRegion(r, a)

PhysOf(vmap, a) ==
    LET r == CHOOSE r \in vmap : InRegion(r, a)
    IN  r.off + (a - r.base)

as_slice(o, vmap, slice_len) ==
    [valid |-> \A i \in 0..(slice_len - 1) : Mapped(vmap, SliceAddr(o, i))]

\* -------------------------------------------------------------- transfers
\* Variant of AssertInto: off by one.
AssertIntoMut(o, n) == o.slice_max_len + 1 >= n

AssertInto(o, n) == o.slice_max_len >= n

AssertFrom(o, n) == o.slice_max_len >= n

copy_into_slice(o, vmap, ph, n, crash, junk) ==
    IF ~AssertInto(o, n)
    THEN [res |-> "panic", buf |-> Zeros(n), oob |-> FALSE, phys |-> ph]
    ELSE IF as_slice(o, vmap, n).valid
    THEN [res |-> "ok",
          buf |-> [i \in 1..n |-> ph[PhysOf(vmap, SliceAddr(o, i - 1))]],
          oob |-> FALSE, phys |-> ph]
    ELSE IF crash
    THEN [res |-> "crash", buf |-> Zeros(n), oob |-> TRUE, phys |-> ph]
    ELSE [res |-> "ok", buf |-> junk, oob |-> TRUE, phys |-> ph]

Store(o, vmap, ph, src) ==
    [p \in DOMAIN ph |->
        IF \E i \in 1..Len(src) :
              /\ Mapped(vmap, SliceAddr(o, i - 1))
              /\ PhysOf(vmap, SliceAddr(o, i - 1)) = p
        THEN src[CHOOSE i \in 1..Len(src) :
                    /\ Mapped(vmap, SliceAddr(o, i - 1))
                    /\ PhysOf(vmap, SliceAddr(o, i - 1)) = p]
        ELSE ph[p]]

copy_from_slice(o, vmap, ph, src, crash) ==
    IF ~AssertFrom(o, Len(src))
    THEN [res |-> "panic", buf |-> src, oob |-> FALSE, phys |-> ph]
    ELSE IF as_slice(o, vmap, Len(src)).valid
    THEN [res |-> "ok", buf |-> src, oob |-> FALSE,
          phys |-> Store(o, vmap, ph, src)]
    ELSE IF crash
    THEN [res |-> "crash", buf |-> src, oob |-> TRUE, phys |-> ph]
    ELSE [res |-> "ok", buf |-> src, oob |-> TRUE,
          phys |-> Store(o, vmap, ph, src)]

\* ------------------------------------------------------------------- drop
drop(o, vmap) ==
    LET u == munmap(vmap, o.map_base, o.len)
    IN  [vm |-> u.vm,
         munmaps |-> <<[base |-> o.map_base, len |-> o.len, hit |-> u.hit]>>]


\* ---------------------------------------------------------------- helpers
\* Variant of Proceeds: the error of Mapping::new is not propagated.
ProceedsMut(r) == TRUE

Proceeds(r) == r.res = "ok"

read_into_slice(vmap, bld, ph, physical_addr, n, openOk, ret, crash, junk) ==
    LET map == new(vmap, bld, physical_addr, n, openOk, ret)
    IN  IF ~Proceeds(map)
        THEN [res |-> map.res, new |-> map, vm |-> map.vm, phys |-> ph,
              transfers |-> 0, oob |-> FALSE, buf |-> Zeros(n),
              munmaps |-> <<>>]
        ELSE LET t == copy_into_slice(map.obj, map.vm, ph, n, crash, junk)
                 d == drop(map.obj, map.vm)
             IN  IF t.res = "crash"
                 THEN [res |-> "crash", new |-> map, vm |-> map.vm,
                       phys |-> t.phys, transfers |-> 1, oob |-> t.oob,
                       buf |-> t.buf, munmaps |-> <<>>]
                 ELSE [res |-> t.res, new |-> map, vm |-> d.vm,
                       phys |-> t.phys, transfers |-> 1, oob |-> t.oob,
                       buf |-> t.buf, munmaps |-> d.munmaps]

write_from_slice(vmap, bld, ph, physical_addr, src, openOk, ret, crash) ==
    LET map == new(vmap, bld, physical_addr, Len(src), openOk, ret)
    IN  IF ~Proceeds(map)
        THEN [res |-> map.res, new |-> map, vm |-> map.vm, phys |-> ph,
              transfers |-> 0, oob |-> FALSE, buf |-> src,
              munmaps |-> <<>>]
        ELSE LET t == copy_from_slice(map.obj, map.vm, ph, src, crash)
                 d == drop(map.obj, map.vm)
             IN  IF t.res = "crash"
                 THEN [res |-> "crash", new |-> map, vm |-> map.vm,
                       phys |-> t.phys, transfers |-> 1, oob |-> t.oob,
                       buf |-> t.buf, munmaps |-> <<>>]
                 ELSE [res |-> t.res, new |-> map, vm |-> d.vm,
                       phys |-> t.phys, transfers |-> 1, oob |-> t.oob,
                       buf |-> t.buf, munmaps |-> d.munmaps]

\* ------------------------------------------------------------------- Init
Init ==
    /\ build = "unobserved"
    /\ phys = [p \in 0..(PhysSize - 1) |-> p % 2]
    /\ vm = {}
    /\ obj = NoObj
    /\ last = [op |-> "init", pa |-> 0, n |-> 0, res |-> "ok", newres |-> "none",
               opens |-> 0, fds |-> 0, mmaps |-> <<>>, munmaps |-> <<>>,
               transfers |-> 0, oob |-> FALSE, buf |-> <<>>]
    /\ nops = 0
    /\ pc = "run"

Step ==
    /\ pc = "run"
    /\ nops < MaxOps
    /\ nops' = nops + 1

\* -------------------------------------------------------------- operations
\* The caller holds at most one Mapping at a time: New and the helpers start
\* when no Mapping is alive.
\* The outcomes of one call, over everything the environment decides: whether
\* the device opens, what mmap returns, and what an access outside every
\* mapped region does.
\* Whether the build checks arithmetic overflow is fixed for a run; it is
\* decided at the first call whose sum len + frame_offset overflows.
BuildChoices(physical_addr, len) ==
    IF build = "unobserved" /\ len > 0 /\ Overflows(len, physical_addr)
    THEN Builds
    ELSE {build}

NewOutcomes(bld, physical_addr, len) ==
    {new(vm, bld, physical_addr, len, openOk, ret) :
        openOk \in BOOLEAN,
        ret \in MmapRets(vm, MapLen(len, physical_addr),
                         as_off_t(frame_addr(physical_addr)))}

CopyIntoOutcomes(n) ==
    {copy_into_slice(obj, vm, phys, n, crash, junk) :
        crash \in BOOLEAN, junk \in BuffersOf(n)}

CopyFromOutcomes(src) ==
    {copy_from_slice(obj, vm, phys, src, crash) : crash \in BOOLEAN}

ReadIntoOutcomes(bld, physical_addr, n) ==
    UNION {{read_into_slice(vm, bld, phys, physical_addr, n, openOk, ret,
                            crash, junk) :
               crash \in BOOLEAN, junk \in BuffersOf(n)} :
           openOk \in BOOLEAN,
           ret \in MmapRets(vm, MapLen(n, physical_addr),
                            as_off_t(frame_addr(physical_addr)))}

WriteFromOutcomes(bld, physical_addr, src) ==
    {write_from_slice(vm, bld, phys, physical_addr, src, openOk, ret,
                      crash) :
        openOk \in BOOLEAN, crash \in BOOLEAN,
        ret \in MmapRets(vm, MapLen(Len(src), physical_addr),
                         as_off_t(frame_addr(physical_addr)))}

New ==
    /\ Step
    /\ ~obj.alive
    /\ \E physical_addr \in PAddrs, len \in Lens :
       \E bld \in BuildChoices(physical_addr, len) :
       \E r \in NewOutcomes(bld, physical_addr, len) :
          /\ build' = bld
          /\ obj' = r.obj
          /\ vm' = r.vm
          /\ last' = [op |-> "new", pa |-> physical_addr, n |-> len,
                      res |-> r.res, newres |-> r.res,
                      opens |-> r.opens, fds |-> r.fds,
                      mmaps |-> r.mmaps, munmaps |-> <<>>,
                      transfers |-> 0, oob |-> FALSE, buf |-> <<>>]
    /\ UNCHANGED <<phys, pc>>

CopyIntoSlice ==
    /\ Step
    /\ obj.alive
    /\ \E n \in BufLens :
       \E t \in CopyIntoOutcomes(n) :
          /\ last' = [op |-> "copy_into_slice", pa |-> obj.pa, n |-> n,
                      res |-> t.res, newres |-> "none",
                      opens |-> 0, fds |-> 0, mmaps |-> <<>>,
                      munmaps |-> <<>>, transfers |-> 1,
                      oob |-> t.oob, buf |-> t.buf]
          /\ phys' = t.phys
          /\ pc' = IF t.res = "crash" THEN "crashed" ELSE pc
    /\ UNCHANGED <<build, vm, obj>>

CopyFromSlice ==
    /\ Step
    /\ obj.alive
    /\ \E src \in Buffers :
       \E t \in CopyFromOutcomes(src) :
          /\ last' = [op |-> "copy_from_slice", pa |-> obj.pa,
                      n |-> Len(src),
                      res |-> t.res, newres |-> "none",
                      opens |-> 0, fds |-> 0, mmaps |-> <<>>,
                      munmaps |-> <<>>, transfers |-> 1,
                      oob |-> t.oob, buf |-> t.buf]
          /\ phys' = t.phys
          /\ pc' = IF t.res = "crash" THEN "crashed" ELSE pc
    /\ UNCHANGED <<build, vm, obj>>

Drop ==
    /\ Step
    /\ obj.alive
    /\ LET d == drop(obj, vm)
       IN  /\ vm' = d.vm
           /\ last' = [op |-> "drop", pa |-> obj.pa, n |-> 0,
                       res |-> "ok", newres |-> "none",
                       opens |-> 0, fds |-> 0, mmaps |-> <<>>,
                       munmaps |-> d.munmaps, transfers |-> 0,
                       oob |-> FALSE, buf |-> <<>>]
    /\ obj' = NoObj
    /\ UNCHANGED <<build, phys, pc>>

ReadIntoSlice ==
    /\ Step
    /\ ~obj.alive
    /\ \E physical_addr \in PAddrs, n \in BufLens :
       \E bld \in BuildChoices(physical_addr, n) :
       \E h \in ReadIntoOutcomes(bld, physical_addr, n) :
          /\ build' = bld
          /\ vm' = h.vm
          /\ phys' = h.phys
          /\ last' = [op |-> "read_into_slice", pa |-> physical_addr,
                      n |-> n, res |-> h.res, newres |-> h.new.res,
                      opens |-> h.new.opens, fds |-> h.new.fds,
                      mmaps |-> h.new.mmaps, munmaps |-> h.munmaps,
                      transfers |-> h.transfers, oob |-> h.oob,
                      buf |-> h.buf]
          /\ pc' = IF h.res = "crash" THEN "crashed" ELSE pc
    /\ UNCHANGED obj

WriteFromSlice ==
    /\ Step
    /\ ~obj.alive
    /\ \E physical_addr \in PAddrs, src \in Buffers :
       \E bld \in BuildChoices(physical_addr, Len(src)) :
       \E h \in WriteFromOutcomes(bld, physical_addr, src) :
          /\ build' = bld
          /\ vm' = h.vm
          /\ phys' = h.phys
          /\ last' = [op |-> "write_from_slice", pa |-> physical_addr,
                      n |-> Len(src), res |-> h.res,
                      newres |-> h.new.res,
                      opens |-> h.new.opens, fds |-> h.new.fds,
                      mmaps |-> h.new.mmaps, munmaps |-> h.munmaps,
                      transfers |-> h.transfers, oob |-> h.oob,
                      buf |-> h.buf]
          /\ pc' = IF h.res = "crash" THEN "crashed" ELSE pc
    /\ UNCHANGED obj

Next ==
    \/ New
    \/ CopyIntoSlice
    \/ CopyFromSlice
    \/ Drop
    \/ ReadIntoSlice
    \/ WriteFromSlice

Spec == Init /\ [][Next]_vars

\* ------------------------------------------------------------- properties
IsNew == last.op = "new"

IsHelper == last.op \in {"read_into_slice", "write_from_slice"}

Constructs == IsNew \/ IsHelper

MmapFailed == last.mmaps # <<>> /\ last.mmaps[1].ret = MAP_FAILED

IntoStep ==
    /\ nops' = nops + 1
    /\ last'.op = "copy_into_slice"

FromStep ==
    /\ nops' = nops + 1
    /\ last'.op = "copy_from_slice"

\* C1: when mmap fails during Mapping::new, construction returns an I/O
\* error: no Mapping is returned, no transfer is made through it, and no
\* munmap is ever attempted for the failed construction.
C1_MmapFailureIsError ==
    /\ (Constructs /\ MmapFailed) =>
          /\ last.newres = "err"
          /\ ~obj.alive
          /\ last.transfers = 0
          /\ last.munmaps = <<>>
    /\ last.op = "drop" => last.munmaps[1].base # MAP_FAILED

\* C2: every Mapping pairs exactly one successful mmap with exactly one
\* munmap of the same base and length: a live Mapping owns a region that is
\* mapped, and the munmap of its release removes exactly that region.
C2_OneMapOneUnmap ==
    /\ obj.alive =>
          \E r \in vm : r.base = obj.map_base /\ r.len = obj.len
    /\ last.op = "drop" =>
          /\ Len(last.munmaps) = 1
          /\ last.munmaps[1].hit
    /\ (IsHelper /\ last.newres = "ok" /\ last.res # "crash") =>
          /\ Len(last.munmaps) = 1
          /\ last.munmaps[1].hit
          /\ last.munmaps[1].base = last.mmaps[1].ret
          /\ last.munmaps[1].len = last.mmaps[1].len

\* C3: every Mapping that Mapping::new returns keeps its usable view inside
\* its mapped region: map_base <= slice_base < map_base + len and
\* slice_base + slice_max_len <= map_base + len, until it is dropped.
C3_ViewInsideRegion ==
    obj.alive =>
       /\ obj.map_base <= obj.slice_base
       /\ obj.slice_base < obj.map_base + obj.len
       /\ obj.slice_base + obj.slice_max_len <= obj.map_base + obj.len

\* C4: with o = physical_addr mod page_size, Mapping::new requests len + o
\* bytes at file offset physical_addr - o, a multiple of the page size, and
\* the usable view starts o bytes into the mapped region with maximum
\* length len.
C4_AlignedRequest ==
    (Constructs /\ last.mmaps # <<>>) =>
       LET o == last.pa % PageSize
           m == last.mmaps[1]
       IN  /\ m.len = last.n + o
           /\ m.off = last.pa - o
           /\ m.off % PageSize = 0
           /\ (IsNew /\ m.ret # MAP_FAILED) =>
                 /\ obj.alive
                 /\ obj.slice_base = obj.map_base + o
                 /\ obj.slice_max_len = last.n

Established ==
    /\ obj.alive
    /\ \E r \in vm : r.base = obj.map_base

C5Step ==
    /\ (IntoStep /\ Established /\ last'.n <= obj.slice_max_len) =>
          /\ last'.res = "ok"
          /\ phys' = phys
          /\ obj' = obj
          /\ \A i \in 1..last'.n :
                /\ obj.pa + i - 1 \in DOMAIN phys
                /\ last'.buf[i] = phys[obj.pa + i - 1]
    /\ (FromStep /\ Established /\ last'.n <= obj.slice_max_len) =>
          /\ last'.res = "ok"
          /\ obj' = obj
          /\ obj.pa + last'.n <= PhysSize
          /\ \A p \in DOMAIN phys :
                phys'[p] = IF obj.pa <= p /\ p < obj.pa + last'.n
                           THEN last'.buf[p - obj.pa + 1]
                           ELSE phys[p]

\* C5: on a Mapping that Mapping::new(physical_addr, len) returned after a
\* successful mmap, a read
\* transfer of n <= len bytes sets dst[i] to the byte at physical_addr + i
\* and changes neither physical memory nor the Mapping; a write transfer
\* stores src[i] at physical_addr + i and changes no other physical byte.
C5_TransferExact ==
    [][C5Step]_vars

\* C6: every access of a transfer touches only addresses inside a region
\* that is mapped at that moment.
C6_AccessInsideMapped ==
    last.transfers > 0 => ~last.oob

\* C7: when the device fails to open, Mapping::new returns a recoverable
\* error: no mmap is issued, no Mapping exists, no transfer is made and no
\* munmap is attempted.
C7_OpenFailureLeavesNothing ==
    (Constructs /\ last.opens = 1 /\ last.fds = 0) =>
       /\ last.res = "err"
       /\ last.mmaps = <<>>
       /\ last.munmaps = <<>>
       /\ last.transfers = 0
       /\ ~obj.alive
       /\ vm = {}

C7_Witness ==
    /\ IsNew
    /\ last.n > 0
    /\ last.opens = 1
    /\ last.fds = 0
    /\ last.res = "err"

C8Step ==
    ((IntoStep \/ FromStep) /\ last'.n > obj.slice_max_len) =>
       /\ last'.res = "panic"
       /\ phys' = phys
       /\ obj' = obj
       /\ vm' = vm
       /\ ~last'.oob
       /\ IntoStep => last'.buf = Zeros(last'.n)

\* C8: a transfer whose buffer is longer than slice_max_len panics before
\* any byte is copied: physical memory, the destination buffer and the
\* Mapping are unchanged and no address is accessed.
C8_OversizedTransferPanics ==
    [][C8Step]_vars

C8_Witness ==
    /\ last.op = "copy_into_slice"
    /\ obj.alive
    /\ last.n > obj.slice_max_len
    /\ last.res = "panic"

C9Step ==
    (/\ nops' = nops + 1
     /\ last'.op \in {"new", "read_into_slice", "write_from_slice"}
     /\ last'.n = 0) =>
       /\ last'.res = "panic"
       /\ last'.opens = 0
       /\ last'.fds = 0
       /\ last'.mmaps = <<>>
       /\ last'.munmaps = <<>>
       /\ last'.transfers = 0
       /\ ~obj'.alive
       /\ vm' = vm
       /\ phys' = phys

\* C9: constructing with len = 0 panics before the device is opened and
\* before any mmap: no device handle, no Mapping, no transfer and no munmap
\* result from the call.
C9_ZeroLengthPanics ==
    [][C9Step]_vars

C9_Witness ==
    /\ IsNew
    /\ last.n = 0
    /\ last.res = "panic"
    /\ last.opens = 0

\* C10: a helper constructs one Mapping of the buffer's length at
\* physical_addr, makes exactly one transfer and releases the Mapping before
\* it returns; it returns an error exactly when Mapping::new does, and then
\* makes no transfer.
C10_HelperComposition ==
    IsHelper =>
       /\ last.newres \in {"ok", "err", "panic"}
       /\ last.res = "err" <=> last.newres = "err"
       /\ last.newres # "ok" =>
             /\ last.res = last.newres
             /\ last.transfers = 0
             /\ last.munmaps = <<>>
       /\ last.newres = "ok" =>
             /\ last.transfers = 1
             /\ Len(last.mmaps) = 1
             /\ last.mmaps[1].len = last.n + frame_offset(last.pa)
             /\ last.mmaps[1].off = frame_addr(last.pa)
             /\ last.res # "crash" =>
                   /\ last.res = "ok"
                   /\ Len(last.munmaps) = 1
                   /\ last.munmaps[1].base = last.mmaps[1].ret
                   /\ last.munmaps[1].len = last.mmaps[1].len
                   /\ vm = {}

C10_Witness ==
    /\ last.op = "read_into_slice"
    /\ last.newres = "ok"
    /\ last.mmaps[1].ret # MAP_FAILED
    /\ last.transfers = 1
    /\ last.n > 0
    /\ last.res = "ok"
    /\ Len(last.munmaps) = 1
====
